---- MODULE Spec2Model ----
(***************************************************************************)
(* Ember backend: the /sync and /sms/inbound handlers of src/index.js in   *)
(* its two variants (the store-backed one, lines 1-334, which keeps user   *)
(* state through getUserState/updateUserState of src/twilio.js:206-265,    *)
(* and the in-memory one, lines 336-713, which keeps it in the userState   *)
(* Map and writes it through persistState), as one state machine.          *)
(*                                                                         *)
(* A request handler is an async function: it runs without interruption    *)
(* up to an await on real I/O (the Anthropic API, Twilio's sendSMS, the    *)
(* file system), where other handlers may run.  An await on a promise that *)
(* is already settled only yields to the microtask queue, so no other      *)
(* request runs there: such an await is part of the same step.             *)
(***************************************************************************)
EXTENDS Integers, Sequences, FiniteSets, TLC

\* ------------------------------------------------------------------ bounds
NumSlots == 2
MaxReq == 2
MaxSeqReq == 4
MaxNow == 2
TicksPerDay == 2
MaxFaults == 1
MaxSync == 32
MaxStoreCalls == 3
MaxShortReq == 3
MaxMemReq == 2
MaxThreadCalls == 5
MaxRejReq == 3
MaxValue == 4
MaxHistory == 3

\* ------------------------------------------------------- program constants
BASELINE_LIMIT == 30
BASELINE_WINDOW_DAYS == 30
DEVIATION_THRESHOLD == 2

Null == 0 - 1
NoText == "<null>"
Slots == 1..NumSlots
Phones == {"+1555"}
MaxDay == MaxNow \div TicksPerDay
Days == 0..MaxDay

DayOf(t) == t \div TicksPerDay

\* A comparison of the instants themselves, not of their calendar days.
isSameDay_instant(isoString, t) ==
  IF isoString = Null THEN FALSE ELSE isoString = t

\* isSameDay(isoString, now): false for a missing date, else the calendar
\* days (year, month, date) of the two instants agree.
isSameDay(isoString, t) ==
  IF isoString = Null THEN FALSE ELSE DayOf(isoString) = DayOf(t)

\* ------------------------------------------------------------ statistics
RECURSIVE SumSeq(_)
SumSeq(s) == IF s = <<>> THEN 0 ELSE Head(s) + SumSeq(Tail(s))

RECURSIVE SumSq(_)
SumSq(s) == IF s = <<>> THEN 0 ELSE Head(s) * Head(s) + SumSq(Tail(s))

RECURSIVE FiniteOnly(_)
FiniteOnly(s) ==
  IF s = <<>> THEN <<>>
  ELSE IF Head(s) = Null THEN FiniteOnly(Tail(s))
       ELSE <<Head(s)>> \o FiniteOnly(Tail(s))

NoDetect == [found |-> FALSE, sum |-> 0, n |-> 1, inf |-> 0, num |-> 0, den2 |-> 0]

\* mean = sum/n, stddev = sqrt(den2)/n, zScore = num/sqrt(den2) where
\* num = n*value - sum and den2 = n*sumsq - sum^2; |zScore| < 2 iff
\* num^2 < 4*den2.  inf is the sign of an infinite zScore (0: finite).
detectTwoSigma(value, history) ==
  IF value = Null \/ Len(history) < 2 THEN NoDetect
  ELSE LET n == Len(history)
           s == SumSeq(history)
           num == n * value - s
           den2 == n * SumSq(history) - s * s
       IN IF den2 = 0
          THEN IF num = 0 THEN NoDetect
               ELSE [found |-> TRUE, sum |-> s, n |-> n, inf |-> 1,
                     num |-> num, den2 |-> den2]
          ELSE IF num * num < 4 * den2 THEN NoDetect
               ELSE [found |-> TRUE, sum |-> s, n |-> n, inf |-> 0,
                     num |-> num, den2 |-> den2]

detectTwoSigma_mem(value, history) ==
  IF value = Null \/ Len(history) < 2 THEN NoDetect
  ELSE LET n == Len(history)
           s == SumSeq(history)
           num == n * value - s
           den2 == n * SumSq(history) - s * s
       IN IF den2 = 0
          THEN IF num = 0 THEN NoDetect
               ELSE [found |-> TRUE, sum |-> s, n |-> n,
                     inf |-> IF num > 0 THEN 1 ELSE 0 - 1,
                     num |-> num, den2 |-> den2]
          ELSE IF num * num < 4 * den2 THEN NoDetect
               ELSE [found |-> TRUE, sum |-> s, n |-> n, inf |-> 0,
                     num |-> num, den2 |-> den2]

\* value < mean and value > mean of a detection
BelowMean(value, d) == d.n * value < d.sum
AboveMean(value, d) == d.n * value > d.sum

\* ------------------------------------------------------------------ texts
\* What the Anthropic API may answer, by the features the normalisers read.
RawPhrases ==
  { [text |-> "our run today?", words |-> 3, ourRun |-> TRUE],
    [text |-> "Everything okay out there today?", words |-> 5, ourRun |-> FALSE] }

RawAcks ==
  { [text |-> "glad to hear it", question |-> FALSE, sentences |-> 1],
    [text |-> "What happened?", question |-> TRUE, sentences |-> 1] }

toSentenceCase(text) ==
  CASE text = "our run today?" -> "Our run today?"
    [] text = "glad to hear it" -> "Glad to hear it"
    [] OTHER -> text

normalizeRunPhrase(raw) ==
  IF raw.text = "" THEN NoText
  ELSE IF raw.words > 4 THEN NoText
  ELSE IF ~raw.ourRun THEN NoText
  ELSE raw.text

normalizeRunPhrase_mem(raw) ==
  IF raw.words < 2 \/ raw.words > 4 THEN "Cutting our run short?"
  ELSE IF ~raw.ourRun THEN "Cutting our run short?"
  ELSE toSentenceCase(raw.text)

normalizeAcknowledgment(raw) ==
  IF raw.text = "" THEN "Thanks for sharing."
  ELSE IF raw.question THEN "Thanks for sharing."
  ELSE IF raw.sentences # 1 THEN "Thanks for sharing."
  ELSE toSentenceCase(raw.text)


\* ------------------------------------------------------------------ inputs
Normal     == [sleep_duration_hours |-> 8, wake_time_hour |-> 7, running_minutes |-> 30]
ShortSleep == [sleep_duration_hours |-> 4, wake_time_hour |-> 7, running_minutes |-> 30]
ShortRun   == [sleep_duration_hours |-> 8, wake_time_hour |-> 7, running_minutes |-> 10]
LateWake   == [sleep_duration_hours |-> 8, wake_time_hour |-> 10, running_minutes |-> 30]
Snapshots  == {ShortSleep, ShortRun, LateWake}

\* ------------------------------------------------------------------- state
VARIABLES
  variant,           \* "store": index.js:1-334 ; "memory": index.js:336-713
  anthropic,         \* whether ANTHROPIC_API_KEY is set (the client exists)
  boot,              \* what the process found on disk when it started
  now,               \* the clock, in ticks
  db,                \* twilio.js: db.states, phone -> state object
  heap,              \* the baseline arrays db.states and the handlers refer to
  dataFile,          \* twilio.js: the content of data.json
  userState,         \* index.js:356: the Map phone -> state object
  stateLoaded,       \* index.js:357
  stateLoadPromise,  \* index.js:358: "none", "pending" or "resolved"
  stateFile,         \* the content of runtime-state.json
  stateWriteChain,   \* index.js:359: the writes queued and not yet settled
  pc,                \* where each request handler is suspended
  loc,               \* each handler's local variables
  started,           \* requests accepted so far
  faults,            \* external failures so far
  last,              \* how the most recently finished request ended
  arrived,           \* the snapshots of the /sync requests answered {ok: true}
  calls,             \* proactive messages handed to sendSMS, per phone and day
  delivered,         \* proactive sendSMS calls that succeeded, per phone and day
  ackCalls,          \* acknowledgments handed to sendSMS since the thread opened
  sentAt,            \* when the last delivered proactive message was sent
  usersFile,         \* store.js:24: the content of data/users.json
  storeOp,           \* store.js: where each call of an exported function stands
  storeLog,          \* the store.js calls that have returned, per phone
  fnIn,              \* the arguments a detection function is called with
  fnOut              \* what the function returned

vars == <<variant, anthropic, boot, now, db, heap, dataFile, userState, stateLoaded,
          stateLoadPromise, stateFile, stateWriteChain, pc, loc, started,
          faults, last, arrived, calls, delivered, ackCalls, sentAt,
          usersFile, storeOp, storeLog, fnIn, fnOut>>

cfgVars == <<variant, anthropic, boot>>
storeVars == <<db, heap, dataFile>>
memVars == <<userState, stateLoaded, stateLoadPromise, stateFile, stateWriteChain>>
smsVars == <<calls, delivered, ackCalls, sentAt>>
fsVars == <<usersFile, storeOp, storeLog>>
fnVars == <<fnIn, fnOut>>

\* A state object of db.states: baseline is a reference into heap.
AbsentDb == [present |-> FALSE, baseline |-> 0, lastMessageDate |-> Null,
             threadOpen |-> FALSE]
\* A state object of the userState Map, and a record of either file.
AbsentMem == [present |-> FALSE, baseline |-> <<>>, lastMessageDate |-> Null,
              threadOpen |-> FALSE]

NoAnomaly == [type |-> "none", inf |-> 0, num |-> 0, den2 |-> 0]
Anomaly(type, d) == [type |-> type, inf |-> d.inf, num |-> d.num, den2 |-> d.den2]

IdleLoc == [kind |-> "none", phone |-> "", snapshot |-> Normal,
            state |-> AbsentDb, alreadyMessagedToday |-> FALSE,
            message |-> NoText, anomaly |-> NoAnomaly, run |-> NoDetect,
            styleTarget |-> NoText,
            reply |-> NoText, startDay |-> 0, endedBefore |-> 0,
            startLmd |-> Null,
            startOpen |-> FALSE, sendCalled |-> FALSE, sendOk |-> FALSE,
            genThrew |-> FALSE]

NoLast == [kind |-> "none", phone |-> "", status |-> "none", day |-> 0,
           anomaly |-> "none", already |-> FALSE,
           startLmd |-> Null, startOpen |-> FALSE,
           sendCalled |-> FALSE, sendOk |-> FALSE, genThrew |-> FALSE,
           appended |-> FALSE, message |-> FALSE]

Ended(l, status, appended) ==
  [kind |-> l.kind, phone |-> l.phone, status |-> status, day |-> l.startDay,
   anomaly |-> l.anomaly.type, already |-> l.alreadyMessagedToday,
   startLmd |-> l.startLmd, startOpen |-> l.startOpen,
   sendCalled |-> l.sendCalled, sendOk |-> l.sendOk, genThrew |-> l.genThrew,
   appended |-> appended, message |-> l.message # NoText]

\* The requests that have finished.
Finished == started - Cardinality({r \in Slots : pc[r] # "idle"})

\* The request ends: what it did is recorded.
End(l, status, appended) ==
  /\ last' = Ended(l, status, appended)
  /\ arrived' = IF l.kind = "sync" /\ status = "ok"
                THEN [arrived EXCEPT ![l.phone] = Append(@, l.snapshot)]
                ELSE arrived

\* ------------------------------------------------- twilio.js: the sync store
NewArr == CHOOSE i \in 1..(Cardinality(DOMAIN heap) + 1) : i \notin DOMAIN heap

\* A getUserState that copies the stored array instead of sharing it.
getUserState_deepcopy(phone) ==
  [state |-> [present |-> TRUE, baseline |-> NewArr,
              lastMessageDate |-> db[phone].lastMessageDate,
              threadOpen |-> db[phone].threadOpen],
   heap |-> heap @@ (NewArr :> IF db[phone].present
                                 THEN heap[db[phone].baseline] ELSE <<>>)]

\* getUserState(phone) = normalizeState(db.states[phone]): a new object whose
\* baseline is the stored array itself when there is one, a new [] otherwise.
\* Returns the object and the heap after the call.
getUserState(phone) ==
  IF db[phone].present
  THEN [state |-> db[phone], heap |-> heap]
  ELSE [state |-> [present |-> TRUE, baseline |-> NewArr,
                   lastMessageDate |-> Null, threadOpen |-> FALSE],
        heap |-> heap @@ (NewArr :> <<>>)]

\* What JSON.stringify(db) writes: arrays by value.
Serialize(dbv, h) ==
  [p \in Phones |->
     IF dbv[p].present
     THEN [present |-> TRUE, baseline |-> h[dbv[p].baseline],
           lastMessageDate |-> dbv[p].lastMessageDate,
           threadOpen |-> dbv[p].threadOpen]
     ELSE AbsentMem]

\* Arrays no object refers to any more are gone.
Collect(h, dbv, locv) ==
  LET live == {dbv[p].baseline : p \in Phones}
              \cup {locv[r].state.baseline : r \in Slots}
  IN [i \in (DOMAIN h) \cap live |-> h[i]]

\* The stored state of an identity, whichever variant runs.
Stored(p) ==
  IF variant = "store" THEN Serialize(db, heap)[p] ELSE userState[p]

\* ------------------------------------------------------- anomaly detection
Column(win, f) == [i \in 1..Len(win) |-> win[i][f]]

\* index.js:196-252: the rule chain up to the first await.  gen: the run
\* rule matched and generateRunPhrase is to be called.
Evaluate(snapshot, win) ==
  LET sleepA == detectTwoSigma(snapshot.sleep_duration_hours,
                               FiniteOnly(Column(win, "sleep_duration_hours")))
      wakeA == detectTwoSigma(snapshot.wake_time_hour,
                              FiniteOnly(Column(win, "wake_time_hour")))
      runA == detectTwoSigma(snapshot.running_minutes,
                             FiniteOnly(Column(win, "running_minutes")))
      sleepMsg == IF ~sleepA.found THEN NoText
                  ELSE IF BelowMean(snapshot.sleep_duration_hours, sleepA)
                       THEN "Short night?"
                  ELSE IF AboveMean(snapshot.sleep_duration_hours, sleepA)
                       THEN "Long night?" ELSE NoText
      wakeMsg == IF ~wakeA.found THEN NoText
                 ELSE IF BelowMean(snapshot.wake_time_hour, wakeA)
                      THEN "Up early?"
                 ELSE IF AboveMean(snapshot.wake_time_hour, wakeA)
                      THEN "Up late?" ELSE NoText
  IN IF sleepMsg # NoText
     THEN [message |-> sleepMsg, anomaly |-> Anomaly("sleep_duration_hours", sleepA),
           gen |-> FALSE, run |-> NoDetect, styleTarget |-> NoText]
     ELSE IF wakeMsg # NoText
     THEN [message |-> wakeMsg, anomaly |-> Anomaly("wake_time_hour", wakeA),
           gen |-> FALSE, run |-> NoDetect, styleTarget |-> NoText]
     ELSE IF runA.found /\ BelowMean(snapshot.running_minutes, runA)
     THEN [message |-> NoText, anomaly |-> NoAnomaly, gen |-> TRUE, run |-> runA,
           styleTarget |-> NoText]
     ELSE [message |-> NoText, anomaly |-> NoAnomaly, gen |-> FALSE,
           run |-> NoDetect, styleTarget |-> NoText]

\* index.js:601-638: the in-memory variant has no wake rule and picks a
\* style target for the run phrase.
Evaluate_mem(snapshot, win) ==
  LET sleepA == detectTwoSigma_mem(snapshot.sleep_duration_hours,
                                   FiniteOnly(Column(win, "sleep_duration_hours")))
      runA == detectTwoSigma_mem(snapshot.running_minutes,
                                 FiniteOnly(Column(win, "running_minutes")))
      sleepMsg == IF ~sleepA.found THEN NoText
                  ELSE IF BelowMean(snapshot.sleep_duration_hours, sleepA)
                       THEN "Short night?"
                  ELSE IF AboveMean(snapshot.sleep_duration_hours, sleepA)
                       THEN "Long night?" ELSE NoText
      severeDrop == runA.sum > 0 /\ 2 * runA.n * snapshot.running_minutes <= runA.sum
  IN IF sleepMsg # NoText
     THEN [message |-> sleepMsg, anomaly |-> Anomaly("sleep_duration_hours", sleepA),
           gen |-> FALSE, run |-> NoDetect, styleTarget |-> NoText]
     ELSE IF runA.found /\ BelowMean(snapshot.running_minutes, runA)
     THEN [message |-> NoText, anomaly |-> Anomaly("running_minutes", runA),
           gen |-> TRUE, run |-> runA,
           styleTarget |-> IF severeDrop THEN "Cutting our run short?"
                           ELSE "Our run today?"]
     ELSE [message |-> NoText, anomaly |-> NoAnomaly, gen |-> FALSE,
           run |-> NoDetect, styleTarget |-> NoText]

\* The entry a /sync pushes.
Entry(snapshot) ==
  [sleep_duration_hours |-> snapshot.sleep_duration_hours,
   wake_time_hour |-> snapshot.wake_time_hour,
   running_minutes |-> snapshot.running_minutes]

Entry_mem(snapshot) ==
  [sleep_duration_hours |-> snapshot.sleep_duration_hours,
   running_minutes |-> snapshot.running_minutes]

\* An eviction at the wrong end: pop() for shift().
PushShift_pop(win, entry) ==
  LET w == Append(win, entry)
  IN IF Len(w) > BASELINE_LIMIT THEN SubSeq(w, 1, Len(w) - 1) ELSE w

\* baseline.push(entry); if (baseline.length > BASELINE_LIMIT) baseline.shift()
PushShift(win, entry) ==
  LET w == Append(win, entry)
  IN IF Len(w) > BASELINE_LIMIT THEN Tail(w) ELSE w


\* ----------------------------------------------------------------- initial
\* What the process finds on disk when it starts: nothing, or a history of
\* two ordinary days left by an earlier run.
History == <<Entry(Normal), Entry(Normal)>>
History_mem == <<Entry_mem(Normal), Entry_mem(Normal)>>

NoFile == [p \in Phones |-> AbsentMem]
\* open: the earlier run sent a check-in today and no reply came yet.
FileWith(win, open) ==
  [p \in Phones |-> [present |-> TRUE, baseline |-> win,
                     lastMessageDate |-> IF open THEN 0 ELSE Null,
                     threadOpen |-> open]]
Boots == {"empty", "history", "open"}

ArrOf == CHOOSE f \in [Phones -> 1..Cardinality(Phones)] :
           \A p, q \in Phones : f[p] = f[q] => p = q

\* twilio.js:217-230: db = loadData()
loadData(file) ==
  [p \in Phones |->
     IF file[p].present
     THEN [present |-> TRUE, baseline |-> ArrOf[p],
           lastMessageDate |-> file[p].lastMessageDate,
           threadOpen |-> file[p].threadOpen]
     ELSE AbsentDb]

loadHeap(file) ==
  [i \in {ArrOf[p] : p \in {q \in Phones : file[q].present}} |->
     file[CHOOSE p \in Phones : ArrOf[p] = i].baseline]

\* ------------------------------------------------------ store.js: the data
\* The identities the calls of store.js are made for.
StorePhones == {"+1555", "+1666"}

\* db[phone] is undefined.
NoUser ==
  [present |-> FALSE, registeredAt |-> Null, snapshots |-> <<>>,
   lastSentAt |-> Null, lastAnomalyType |-> NoText, conversation |-> <<>>]

\* store.js:60-67: the record registerUser creates at time t.
NewUser(t) ==
  [present |-> TRUE, registeredAt |-> t, snapshots |-> <<>>,
   lastSentAt |-> Null, lastAnomalyType |-> NoText, conversation |-> <<>>]

\* store.js:35: the {} readDB returns from its catch.
EmptyDB == [p \in StorePhones |-> NoUser]

Registered(d) == {p \in StorePhones : d[p].present}

\* store.js:29-36: a file that is missing, or cut short by a write that has
\* opened it and not finished, makes readFile or JSON.parse throw, and the
\* catch returns {}.
readDB(file) == IF file.state = "whole" THEN file.content ELSE EmptyDB

\* A call of an exported function: pc is "idle", "read" (awaiting
\* fs.readFile), "write" (awaiting fs.mkdir and the opening of the file) or
\* "writing" (the file is open and truncated); db is the object readDB
\* returned, saw the identities of the last completely written file when the
\* call read it.
IdleOp ==
  [kind |-> "none", phone |-> "", arg |-> Null, pc |-> "idle", db |-> EmptyDB,
   saw |-> {}]

\* The log of a process whose users.json holds d: what the calls that
\* produced d have returned.
\* conversation: what the last getConversation returned, "null" or "thread".
LogOf(d) ==
  [calls |-> 0, clash |-> FALSE,
   done |-> [p \in StorePhones |->
              [registerUser |-> IF d[p].present THEN 1 ELSE 0,
               updateBaseline |-> Len(d[p].snapshots),
               recordSent |-> IF d[p].lastSentAt # Null THEN 1 ELSE 0,
               appendUserMessage |-> 0, appendAssistantMessage |-> 0]],
   conversation |-> "none"]

\* No call of store.js is made: users.json is missing.
InitStoreIdle ==
  /\ usersFile = [state |-> "missing", content |-> EmptyDB]
  /\ storeOp = [r \in Slots |-> IdleOp]
  /\ storeLog = LogOf(EmptyDB)

\* ------------------------------------------------ twilio.js: the detector
\* stats() of a metric: mean and standard deviation, null for no value.
NoStats == [mean |-> Null, stddev |-> Null]

\* baseline is null.
NoBaseline ==
  [present |-> FALSE, sampleCount |-> 0, wakeTime |-> NoStats,
   sleepDuration |-> NoStats, restingHR |-> NoStats, workoutDuration |-> NoStats,
   runFrequency |-> 0, typicalRunHour |-> Null]

\* twilio.js:187-189 with twilio.js:60, 79, 123, 142: zScore > 2.0 and
\* zScore < -2.0 for a standard deviation above 0, without the division.
ZAbove(value, st) == value - st.mean > DEVIATION_THRESHOLD * st.stddev
ZBelow(value, st) == value - st.mean < 0 - DEVIATION_THRESHOLD * st.stddev

\* twilio.js:46-47: 1 is Sunday, 7 is Saturday.
isWeekday(weekday) == weekday >= 2 /\ weekday <= 6

\* twilio.js:50-60
lateWake(snapshot, baseline) ==
  /\ isWeekday(snapshot.weekday)
  /\ snapshot.wake_time_hour # Null
  /\ baseline.wakeTime.mean # Null
  /\ baseline.wakeTime.stddev > 0
  /\ ZAbove(snapshot.wake_time_hour, baseline.wakeTime)

\* twilio.js:73-79
shortSleep(snapshot, baseline) ==
  /\ snapshot.sleep_duration_hours # Null
  /\ baseline.sleepDuration.mean # Null
  /\ baseline.sleepDuration.stddev > 0
  /\ ZBelow(snapshot.sleep_duration_hours, baseline.sleepDuration)

\* twilio.js:95-104: runFrequency is kept in percent; currentHour is
\* new Date().getHours().
skippedRun(snapshot, baseline, currentHour) ==
  /\ baseline.runFrequency > 60
  /\ snapshot.running_minutes = 0
  /\ LET typicalRunHour == IF baseline.typicalRunHour = Null THEN 9
                           ELSE baseline.typicalRunHour
     IN currentHour > typicalRunHour + 3

\* twilio.js:116-123
elevatedHR(snapshot, baseline) ==
  /\ snapshot.resting_hr # Null
  /\ baseline.restingHR.mean # Null
  /\ baseline.restingHR.stddev > 0
  /\ ZAbove(snapshot.resting_hr, baseline.restingHR)

\* twilio.js:135-142
shortWorkout(snapshot, baseline) ==
  /\ snapshot.running_minutes > 0
  /\ baseline.workoutDuration.mean # Null
  /\ baseline.workoutDuration.stddev > 0
  /\ ZBelow(snapshot.running_minutes, baseline.workoutDuration)

\* The descriptor: zScore is num / den.
Descriptor(type, value, st) ==
  [type |-> type, num |-> value - st.mean, den |-> st.stddev]
NoDescriptor == [type |-> "null", num |-> 0, den |-> 1]

\* The heart-rate check placed before the skipped-run check.
analyzeSnapshot_hrFirst(snapshot, baseline, currentHour) ==
  IF ~baseline.present \/ baseline.sampleCount < 7 THEN NoDescriptor
  ELSE IF lateWake(snapshot, baseline)
       THEN Descriptor("late_wake", snapshot.wake_time_hour, baseline.wakeTime)
  ELSE IF shortSleep(snapshot, baseline)
       THEN Descriptor("short_sleep", snapshot.sleep_duration_hours,
                       baseline.sleepDuration)
  ELSE IF elevatedHR(snapshot, baseline)
       THEN Descriptor("elevated_hr", snapshot.resting_hr, baseline.restingHR)
  ELSE IF skippedRun(snapshot, baseline, currentHour)
       THEN [NoDescriptor EXCEPT !.type = "skipped_run"]
  ELSE IF shortWorkout(snapshot, baseline)
       THEN Descriptor("short_workout", snapshot.running_minutes,
                       baseline.workoutDuration)
  ELSE NoDescriptor

\* twilio.js:40-154
analyzeSnapshot(snapshot, baseline, currentHour) ==
  IF ~baseline.present \/ baseline.sampleCount < 7 THEN NoDescriptor
  ELSE IF lateWake(snapshot, baseline)
       THEN Descriptor("late_wake", snapshot.wake_time_hour, baseline.wakeTime)
  ELSE IF shortSleep(snapshot, baseline)
       THEN Descriptor("short_sleep", snapshot.sleep_duration_hours,
                       baseline.sleepDuration)
  ELSE IF skippedRun(snapshot, baseline, currentHour)
       THEN [NoDescriptor EXCEPT !.type = "skipped_run"]
  ELSE IF elevatedHR(snapshot, baseline)
       THEN Descriptor("elevated_hr", snapshot.resting_hr, baseline.restingHR)
  ELSE IF shortWorkout(snapshot, baseline)
       THEN Descriptor("short_workout", snapshot.running_minutes,
                       baseline.workoutDuration)
  ELSE NoDescriptor

\* twilio.js:191-204: stats(arr), exactly: mean is sum / n and stddev is
\* sqrt(den2) / n with den2 = n * sumsq - sum^2; none for an empty array.
NullStats == [none |-> TRUE, n |-> 0, sum |-> 0, den2 |-> 0]
stats(arr) ==
  IF arr = <<>> THEN NullStats
  ELSE [none |-> FALSE, n |-> Len(arr), sum |-> SumSeq(arr),
        den2 |-> Len(arr) * SumSq(arr) - SumSeq(arr) * SumSeq(arr)]

\* twilio.js:160-183: null below three snapshots.  runDays stands for
\* runFrequency = runDays / sampleCount; typicalRunHour is Math.round of the
\* mean hour of the days with a run.
computeBaseline(snapshots) ==
  IF Len(snapshots) < 3
  THEN [present |-> FALSE, sampleCount |-> 0, wakeTime |-> NullStats,
        sleepDuration |-> NullStats, restingHR |-> NullStats,
        workoutDuration |-> NullStats, runDays |-> 0, typicalRunHour |-> Null]
  ELSE LET runDays == SelectSeq(snapshots, LAMBDA sn : sn.running_minutes > 0)
           hours == SumSeq(Column(runDays, "hour"))
       IN [present |-> TRUE,
           sampleCount |-> Len(snapshots),
           wakeTime |-> stats(FiniteOnly(Column(snapshots, "wake_time_hour"))),
           sleepDuration |->
              stats(FiniteOnly(Column(snapshots, "sleep_duration_hours"))),
           restingHR |-> stats(FiniteOnly(Column(snapshots, "resting_hr"))),
           workoutDuration |-> stats(Column(runDays, "running_minutes")),
           runDays |-> Len(runDays),
           typicalRunHour |->
              IF runDays = <<>> THEN Null
              ELSE (2 * hours + Len(runDays)) \div (2 * Len(runDays))]

\* No detection function is being called.
NoInput ==
  [fn |-> "none", snapshot |-> Normal, baseline |-> NoBaseline, hour |-> 0,
   value |-> Null, history |-> <<>>]
NoOutput == [applied |-> FALSE, result |-> NoDescriptor]

InitFnIdle == fnIn = NoInput /\ fnOut = NoOutput

InitServer ==
  /\ variant \in {"store", "memory"}
  /\ anthropic \in BOOLEAN
  /\ now = 0
  /\ boot \in Boots
  /\ IF variant = "store"
     THEN /\ dataFile = IF boot = "empty" THEN NoFile
                        ELSE FileWith(History, boot = "open")
          /\ db = loadData(dataFile)
          /\ heap = loadHeap(dataFile)
          /\ stateFile = [exists |-> FALSE, content |-> NoFile]
     ELSE /\ stateFile =
               IF boot = "empty" THEN [exists |-> FALSE, content |-> NoFile]
               ELSE [exists |-> TRUE,
                     content |-> FileWith(History_mem, boot = "open")]
          /\ dataFile = NoFile
          /\ db = loadData(NoFile)
          /\ heap = loadHeap(NoFile)
  /\ calls = [p \in Phones |->
               [d \in Days |-> IF boot = "open" /\ d = 0 THEN 1 ELSE 0]]
  /\ delivered = calls
  /\ sentAt = [p \in Phones |-> IF boot = "open" THEN 0 ELSE Null]
  /\ userState = [p \in Phones |-> AbsentMem]
  /\ stateLoaded = FALSE
  /\ stateLoadPromise = "none"
  /\ stateWriteChain = <<>>
  /\ pc = [r \in Slots |-> "idle"]
  /\ loc = [r \in Slots |-> IdleLoc]
  /\ started = 0
  /\ faults = 0
  /\ last = NoLast
  /\ arrived = [p \in Phones |-> <<>>]
  /\ ackCalls = [p \in Phones |-> 0]

Init == InitServer /\ InitStoreIdle /\ InitFnIdle

\* ------------------------------------------------------- shared handler steps
\* A catch that stamps the message as sent although sendSMS failed.
Fail500_commit(r, l, f) ==
  /\ pc' = [pc EXCEPT ![r] = "idle"]
  /\ loc' = [loc EXCEPT ![r] = IdleLoc]
  /\ End(l, "error", FALSE)
  /\ faults' = f
  /\ IF variant = "store"
     THEN /\ db' = IF l.sendCalled
                   THEN [db EXCEPT ![l.phone] =
                           [l.state EXCEPT !.lastMessageDate = now,
                                           !.threadOpen = TRUE]]
                   ELSE db
          /\ heap' = Collect(heap, db', loc')
          /\ UNCHANGED <<dataFile, memVars>>
     ELSE /\ userState' = IF l.sendCalled
                          THEN [userState EXCEPT ![l.phone].lastMessageDate = now,
                                                 ![l.phone].threadOpen = TRUE]
                          ELSE userState
          /\ UNCHANGED <<storeVars, stateLoaded, stateLoadPromise, stateFile,
                         stateWriteChain>>

\* catch (err) { res.status(500) }: the request ends, nothing is written.
\* f: the failures counted so far, this one included.
Fail500(r, l, f) ==
  /\ pc' = [pc EXCEPT ![r] = "idle"]
  /\ loc' = [loc EXCEPT ![r] = IdleLoc]
  /\ End(l, "error", FALSE)
  /\ faults' = f
  /\ heap' = Collect(heap, db, loc')
  /\ UNCHANGED <<db, dataFile, memVars>>

\* A persistState whose write runs ahead of the writes already pending.
persistState_front(r, us) ==
  /\ stateWriteChain' =
       <<[keys |-> {p \in Phones : us[p].present}, owner |-> r]>>
         \o stateWriteChain
  /\ pc' = [pc EXCEPT ![r] = "persist"]

\* index.js:419-430, persistState() up to its await: the keys of the Map are
\* copied now, the state objects are read when the write runs.
persistState(r, us) ==
  /\ stateWriteChain' =
       Append(stateWriteChain,
              [keys |-> {p \in Phones : us[p].present}, owner |-> r])
  /\ pc' = [pc EXCEPT ![r] = "persist"]

\* twilio.js:261-265 updateUserState with saveData (240-243): the in-memory
\* assignment comes first, the write may throw after it.
updateUserState(phone, state, h, ok) ==
  /\ db' = [db EXCEPT ![phone] = state]
  /\ dataFile' = IF ok THEN Serialize(db', h) ELSE dataFile

\* index.js:263-273 and 649-658: push, shift, store, respond.
SyncCommit(r, l, h, us, f) ==
  IF variant = "store"
  THEN LET h2 == [h EXCEPT ![l.state.baseline] =
                               PushShift(@, Entry(l.snapshot))]
       IN \E ok \in BOOLEAN :
            /\ ok \/ f < MaxFaults
            /\ updateUserState(l.phone, l.state, h2, ok)
            /\ pc' = [pc EXCEPT ![r] = "idle"]
            /\ loc' = [loc EXCEPT ![r] = IdleLoc]
            /\ heap' = Collect(h2, db', loc')
            /\ End(l, IF ok THEN "ok" ELSE "error", TRUE)
            /\ faults' = IF ok THEN f ELSE f + 1
            /\ UNCHANGED memVars
  ELSE LET us2 == [us EXCEPT ![l.phone].baseline =
                                 PushShift(@, Entry_mem(l.snapshot))]
       IN /\ userState' = us2
          /\ persistState(r, us2)
          /\ loc' = [loc EXCEPT ![r] = l]
          /\ faults' = f
          /\ UNCHANGED <<storeVars, stateLoaded, stateLoadPromise, stateFile, last, arrived>>

\* index.js:254-261 and 640-647: the cooldown gate.
SyncDecide(r, l, h, us, f) ==
  IF l.message # NoText /\ ~l.alreadyMessagedToday
  THEN /\ pc' = [pc EXCEPT ![r] = "send"]
       /\ loc' = [loc EXCEPT ![r] = [l EXCEPT !.sendCalled = TRUE]]
       /\ calls' = [calls EXCEPT ![l.phone][DayOf(now)] = @ + 1]
       /\ heap' = h
       /\ userState' = us
       /\ faults' = f
       /\ UNCHANGED <<db, dataFile, stateLoaded, stateLoadPromise, stateFile,
                      stateWriteChain, last, arrived>>
  ELSE /\ SyncCommit(r, l, h, us, f)
       /\ calls' = calls

\* index.js:194-252 and 599-638: from getUserState to the first await.
SyncEvaluate(r, l0) ==
  IF variant = "store"
  THEN LET g == getUserState(l0.phone)
           st == g.state
           ev == Evaluate(l0.snapshot, g.heap[st.baseline])
           l1 == [l0 EXCEPT !.state = st,
                            !.alreadyMessagedToday = isSameDay(st.lastMessageDate, now),
                            !.startDay = DayOf(now),
                            !.startLmd = st.lastMessageDate,
                            !.startOpen = st.threadOpen,
                            !.message = ev.message,
                            !.anomaly = ev.anomaly,
                            !.run = ev.run]
       IN IF ev.gen /\ anthropic
          THEN /\ pc' = [pc EXCEPT ![r] = "gen"]
               /\ loc' = [loc EXCEPT ![r] = l1]
               /\ heap' = g.heap
               /\ UNCHANGED <<db, dataFile, memVars, faults, last, arrived, calls>>
          ELSE SyncDecide(r, l1, g.heap, userState, faults)
  ELSE LET us1 == IF userState[l0.phone].present THEN userState
                  ELSE [userState EXCEPT ![l0.phone] =
                          [AbsentMem EXCEPT !.present = TRUE]]
           st == us1[l0.phone]
           ev == Evaluate_mem(l0.snapshot, st.baseline)
           l1 == [l0 EXCEPT !.alreadyMessagedToday = isSameDay(st.lastMessageDate, now),
                            !.startDay = DayOf(now),
                            !.startLmd = st.lastMessageDate,
                            !.startOpen = st.threadOpen,
                            !.message = ev.message,
                            !.anomaly = ev.anomaly,
                            !.run = ev.run,
                            !.styleTarget = ev.styleTarget]
       IN IF ev.gen /\ anthropic
          THEN /\ pc' = [pc EXCEPT ![r] = "gen"]
               /\ loc' = [loc EXCEPT ![r] = l1]
               /\ userState' = us1
               /\ UNCHANGED <<storeVars, stateLoaded, stateLoadPromise, stateFile,
                              stateWriteChain, faults, last, arrived, calls>>
          ELSE SyncDecide(r,
                 IF ev.gen
                 THEN [l1 EXCEPT !.message = ev.styleTarget,
                                 !.anomaly = Anomaly("running_minutes", ev.run)]
                 ELSE l1,
                 heap, us1, faults)

\* A handler that calls getUserState before it awaits ensureStateLoaded.
AwaitLoad_early(r, l0) ==
  /\ pc' = [pc EXCEPT ![r] = "load"]
  /\ loc' = [loc EXCEPT ![r] = l0]
  /\ stateLoadPromise' = "pending"
  /\ userState' = [userState EXCEPT ![l0.phone] =
                     [AbsentMem EXCEPT !.present = TRUE]]
  /\ UNCHANGED <<storeVars, stateLoaded, stateFile, stateWriteChain,
                 faults, last, arrived>>

\* index.js:389-417 ensureStateLoaded, called while the state is not loaded:
\* the first caller starts the read, every caller waits for it.
AwaitLoad(r, l0) ==
  /\ pc' = [pc EXCEPT ![r] = "load"]
  /\ loc' = [loc EXCEPT ![r] = l0]
  /\ stateLoadPromise' = "pending"
  /\ UNCHANGED <<storeVars, userState, stateLoaded, stateFile, stateWriteChain,
                 faults, last, arrived>>


\* ------------------------------------------------------------ POST /sync
\* index.js:187-195 and 591-600: a request with a phone arrives.
SyncStart(r, phone, snapshot) ==
  /\ pc[r] = "idle"
  /\ started' = started + 1
  /\ LET l0 == [IdleLoc EXCEPT !.kind = "sync", !.phone = phone,
                               !.snapshot = snapshot, !.startDay = DayOf(now),
                               !.endedBefore = Finished]
     IN IF variant = "memory" /\ ~stateLoaded
        THEN AwaitLoad(r, l0) /\ calls' = calls
        ELSE SyncEvaluate(r, l0)
  /\ UNCHANGED <<cfgVars, fnVars, fsVars, now, delivered, ackCalls, sentAt>>

\* index.js:598-599: the load has finished, the handler goes on.
SyncAfterLoad(r) ==
  /\ pc[r] = "load"
  /\ loc[r].kind = "sync"
  /\ stateLoaded
  /\ SyncEvaluate(r, loc[r])
  /\ UNCHANGED <<cfgVars, fnVars, fsVars, now, started, delivered, ackCalls, sentAt>>

\* index.js:244-250 and 632-636: generateRunPhrase settles.
GenReturn(r) ==
  /\ pc[r] = "gen"
  /\ \E threw \in BOOLEAN, raw \in RawPhrases :
       IF threw
       THEN /\ faults < MaxFaults
            /\ Fail500(r, [loc[r] EXCEPT !.genThrew = TRUE], faults + 1)
            /\ UNCHANGED calls
       ELSE LET m == IF variant = "store" THEN normalizeRunPhrase(raw)
                     ELSE normalizeRunPhrase_mem(raw)
                l1 == [loc[r] EXCEPT
                         !.message = m,
                         !.anomaly = IF m # NoText \/ variant = "memory"
                                     THEN Anomaly("running_minutes", loc[r].run)
                                     ELSE NoAnomaly]
            IN SyncDecide(r, l1, heap, userState, faults)
  /\ UNCHANGED <<cfgVars, fnVars, fsVars, now, started, delivered, ackCalls, sentAt>>

\* index.js:255-258 and 641-644: sendSMS settles.  A rejection goes to the
\* catch; success opens the thread and stamps lastMessageDate.
SendReturn(r) ==
  /\ pc[r] = "send"
  /\ \E ok \in BOOLEAN :
       IF ~ok
       THEN /\ faults < MaxFaults
            /\ Fail500(r, loc[r], faults + 1)
            /\ UNCHANGED <<delivered, ackCalls, sentAt>>
       ELSE LET p == loc[r].phone
                l1 == [loc[r] EXCEPT !.sendOk = TRUE]
            IN /\ delivered' = [delivered EXCEPT ![p][DayOf(now)] = @ + 1]
               /\ sentAt' = [sentAt EXCEPT ![p] = now]
               /\ ackCalls' = [ackCalls EXCEPT ![p] = 0]
               /\ IF variant = "store"
                  THEN SyncCommit(r,
                         [l1 EXCEPT !.state.threadOpen = TRUE,
                                    !.state.lastMessageDate = now],
                         heap, userState, faults)
                  ELSE SyncCommit(r, l1, heap,
                         [userState EXCEPT ![p].threadOpen = TRUE,
                                           ![p].lastMessageDate = now],
                         faults)
  /\ UNCHANGED <<cfgVars, fnVars, fsVars, now, started, calls>>

\* ----------------------------------------------------- in-memory persistence
\* index.js:396-414: the read of runtime-state.json settles.
LoadSettle ==
  /\ stateLoadPromise = "pending"
  /\ userState' = IF stateFile.exists
                  THEN [p \in Phones |->
                          IF stateFile.content[p].present
                          THEN stateFile.content[p] ELSE userState[p]]
                  ELSE userState
  /\ stateLoaded' = TRUE
  /\ stateLoadPromise' = "resolved"
  /\ UNCHANGED <<cfgVars, fnVars, fsVars, now, storeVars, stateFile, stateWriteChain, pc, loc,
                 started, faults, last, arrived, smsVars>>

\* index.js:421-429: the oldest queued write runs and settles; a failure is
\* caught and logged.  The handler that awaits it goes on: /sync responds
\* {ok: true}, /sms/inbound ends.
WriteSettle ==
  /\ stateWriteChain # <<>>
  /\ LET w == Head(stateWriteChain)
         r == w.owner
     IN /\ \E ok \in BOOLEAN :
             /\ ok \/ faults < MaxFaults
             /\ faults' = IF ok THEN faults ELSE faults + 1
             /\ stateFile' =
                  IF ok
                  THEN [exists |-> TRUE,
                        content |-> [p \in Phones |->
                                       IF p \in w.keys THEN userState[p]
                                       ELSE AbsentMem]]
                  ELSE stateFile
        /\ stateWriteChain' = Tail(stateWriteChain)
        /\ pc' = [pc EXCEPT ![r] = "idle"]
        /\ loc' = [loc EXCEPT ![r] = IdleLoc]
        /\ End(loc[r], IF loc[r].kind = "sync" THEN "ok" ELSE "done",
                         loc[r].kind = "sync")
  /\ UNCHANGED <<cfgVars, fnVars, fsVars, now, storeVars, userState, stateLoaded,
                 stateLoadPromise, started, smsVars>>

\* ------------------------------------------------------ POST /sms/inbound
\* index.js:323-326 and 702-705: finally { threadOpen = false; store }.
InboundFinally(r, l, f) ==
  IF variant = "store"
  THEN \E ok \in BOOLEAN :
         /\ ok \/ f < MaxFaults
         /\ updateUserState(l.phone, [l.state EXCEPT !.threadOpen = FALSE], heap, ok)
         /\ pc' = [pc EXCEPT ![r] = "idle"]
         /\ loc' = [loc EXCEPT ![r] = IdleLoc]
         /\ heap' = Collect(heap, db', loc')
         /\ End(l, IF ok THEN "done" ELSE "error", FALSE)
         /\ faults' = IF ok THEN f ELSE f + 1
         /\ UNCHANGED memVars
  ELSE /\ userState' = [userState EXCEPT ![l.phone].threadOpen = FALSE]
       /\ persistState(r, userState')
       /\ loc' = [loc EXCEPT ![r] = l]
       /\ faults' = f
       /\ UNCHANGED <<storeVars, stateLoaded, stateLoadPromise, stateFile, last, arrived>>

\* index.js:317-319 and 696-698: generateAcknowledgment is called; without
\* an API client it returns the fixed text at once and sendSMS is called.
InboundReply(r, l, h) ==
  /\ IF anthropic
     THEN /\ pc' = [pc EXCEPT ![r] = "ackgen"]
          /\ loc' = [loc EXCEPT ![r] = l]
          /\ ackCalls' = ackCalls
     ELSE /\ pc' = [pc EXCEPT ![r] = "acksend"]
          /\ loc' = [loc EXCEPT ![r] = [l EXCEPT !.reply = "Thanks for sharing.",
                                                 !.sendCalled = TRUE]]
          /\ ackCalls' = [ackCalls EXCEPT ![l.phone] = @ + 1]
  /\ heap' = h
  /\ UNCHANGED <<db, dataFile, memVars, faults, last, arrived>>

\* getUserState in place of getExistingUserState: the in-memory variant sets
\* a default record for a phone it does not know.
InboundNoop_create(r, l, h) ==
  /\ pc' = [pc EXCEPT ![r] = "idle"]
  /\ loc' = [loc EXCEPT ![r] = IdleLoc]
  /\ End(l, "noop", FALSE)
  /\ heap' = Collect(h, db, loc')
  /\ userState' = IF variant = "memory" /\ ~userState[l.phone].present
                  THEN [userState EXCEPT ![l.phone] =
                          [present |-> TRUE, baseline |-> <<>>,
                           lastMessageDate |-> Null, threadOpen |-> FALSE]]
                  ELSE userState
  /\ UNCHANGED <<db, dataFile, stateLoaded, stateLoadPromise, stateFile,
                 stateWriteChain, faults, ackCalls>>

\* The handler returns without a reply: no record or no open thread.
InboundNoop(r, l, h) ==
  /\ pc' = [pc EXCEPT ![r] = "idle"]
  /\ loc' = [loc EXCEPT ![r] = IdleLoc]
  /\ End(l, "noop", FALSE)
  /\ heap' = Collect(h, db, loc')
  /\ UNCHANGED <<db, dataFile, memVars, faults, ackCalls>>

\* index.js:314-315 and 692-694: the state is read and the thread checked.
InboundEvaluate(r, l0) ==
  IF variant = "store"
  THEN LET g == getUserState(l0.phone)
           l1 == [l0 EXCEPT !.state = g.state, !.startDay = DayOf(now),
                            !.startLmd = g.state.lastMessageDate,
                            !.startOpen = g.state.threadOpen]
       IN IF ~g.state.threadOpen THEN InboundNoop(r, l1, g.heap)
          ELSE InboundReply(r, l1, g.heap)
  ELSE LET st == userState[l0.phone]
           l1 == [l0 EXCEPT !.startDay = DayOf(now),
                            !.startLmd = st.lastMessageDate,
                            !.startOpen = st.threadOpen]
       IN IF ~st.present \/ ~st.threadOpen THEN InboundNoop(r, l1, heap)
          ELSE InboundReply(r, l1, heap)

\* index.js:288-315 and 673-694: a signed message with a sender and a body.
InboundStart(r, phone) ==
  /\ pc[r] = "idle"
  /\ started' = started + 1
  /\ LET l0 == [IdleLoc EXCEPT !.kind = "inbound", !.phone = phone,
                               !.startDay = DayOf(now),
                               !.endedBefore = Finished]
     IN IF variant = "memory" /\ ~stateLoaded
        THEN AwaitLoad(r, l0) /\ ackCalls' = ackCalls
        ELSE InboundEvaluate(r, l0)
  /\ UNCHANGED <<cfgVars, fnVars, fsVars, now, calls, delivered, sentAt>>

InboundAfterLoad(r) ==
  /\ pc[r] = "load"
  /\ loc[r].kind = "inbound"
  /\ stateLoaded
  /\ InboundEvaluate(r, loc[r])
  /\ UNCHANGED <<cfgVars, fnVars, fsVars, now, started, calls, delivered, sentAt>>

\* index.js:318 and 697: generateAcknowledgment settles.  A rejection skips
\* sendSMS and goes to catch and finally.
AckGenReturn(r) ==
  /\ pc[r] = "ackgen"
  /\ \E threw \in BOOLEAN, raw \in RawAcks :
       IF threw
       THEN /\ faults < MaxFaults
            /\ InboundFinally(r, [loc[r] EXCEPT !.genThrew = TRUE], faults + 1)
            /\ ackCalls' = ackCalls
       ELSE /\ pc' = [pc EXCEPT ![r] = "acksend"]
            /\ loc' = [loc EXCEPT ![r].reply = normalizeAcknowledgment(raw),
                                  ![r].sendCalled = TRUE]
            /\ ackCalls' = [ackCalls EXCEPT ![loc[r].phone] = @ + 1]
            /\ UNCHANGED <<storeVars, memVars, faults, last, arrived>>
  /\ UNCHANGED <<cfgVars, fnVars, fsVars, now, started, calls, delivered, sentAt>>

\* index.js:319-326 and 698-705: sendSMS settles, either way the finally runs.
AckSendReturn(r) ==
  /\ pc[r] = "acksend"
  /\ \E ok \in BOOLEAN :
       /\ ok \/ faults < MaxFaults
       /\ InboundFinally(r, [loc[r] EXCEPT !.sendOk = ok],
                         IF ok THEN faults ELSE faults + 1)
  /\ UNCHANGED <<cfgVars, fnVars, fsVars, now, started, smsVars>>

\* ------------------------------------------------------------------- clock
Tick ==
  /\ now < MaxNow
  /\ now' = now + 1
  /\ UNCHANGED <<cfgVars, fnVars, fsVars, storeVars, memVars, pc, loc, started, faults, last, arrived,
                 smsVars>>

\* ---------------------------------------------------------- specifications
AllIdle == \A r \in Slots : pc[r] = "idle"

\* A request is served by the first handler instance that is free: which
\* instance serves it makes no difference to the program.
Free(r) == pc[r] = "idle" /\ \A q \in Slots : q < r => pc[q] # "idle"

\* Requests may overlap.
Next ==
  \/ \E r \in Slots, p \in Phones, s \in Snapshots :
       started < MaxReq /\ Free(r) /\ SyncStart(r, p, s)
  \/ \E r \in Slots, p \in Phones :
       started < MaxReq /\ Free(r) /\ InboundStart(r, p)
  \/ \E r \in Slots : SyncAfterLoad(r)
  \/ \E r \in Slots : InboundAfterLoad(r)
  \/ \E r \in Slots : GenReturn(r)
  \/ \E r \in Slots : SendReturn(r)
  \/ \E r \in Slots : AckGenReturn(r)
  \/ \E r \in Slots : AckSendReturn(r)
  \/ LoadSettle
  \/ WriteSettle
  \/ Tick

Spec == Init /\ [][Next]_vars

\* Requests are handled one after the other: a request arrives only when no
\* other is in progress.
NextSeq ==
  \/ \E r \in Slots, p \in Phones, s \in Snapshots :
       AllIdle /\ Free(r) /\ started < MaxSeqReq /\ SyncStart(r, p, s)
  \/ \E r \in Slots, p \in Phones :
       AllIdle /\ Free(r) /\ started < MaxSeqReq /\ InboundStart(r, p)
  \/ \E r \in Slots : SyncAfterLoad(r)
  \/ \E r \in Slots : InboundAfterLoad(r)
  \/ \E r \in Slots : GenReturn(r)
  \/ \E r \in Slots : SendReturn(r)
  \/ \E r \in Slots : AckGenReturn(r)
  \/ \E r \in Slots : AckSendReturn(r)
  \/ LoadSettle
  \/ WriteSettle
  \/ Tick

SpecSeq == Init /\ [][NextSeq]_vars

\* The in-memory variant alone, requests overlapping within one instant.
NextMem ==
  \/ \E r \in Slots, p \in Phones, s \in Snapshots :
       started < MaxMemReq /\ Free(r) /\ SyncStart(r, p, s)
  \/ \E r \in Slots, p \in Phones :
       started < MaxMemReq /\ Free(r) /\ InboundStart(r, p)
  \/ \E r \in Slots : SyncAfterLoad(r)
  \/ \E r \in Slots : InboundAfterLoad(r)
  \/ \E r \in Slots : GenReturn(r)
  \/ \E r \in Slots : SendReturn(r)
  \/ \E r \in Slots : AckGenReturn(r)
  \/ \E r \in Slots : AckSendReturn(r)
  \/ LoadSettle
  \/ WriteSettle

InitMem == Init /\ variant = "memory"

SpecMem == InitMem /\ [][NextMem]_vars

\* One request at a time, a few requests.
NextShort ==
  \/ \E r \in Slots, p \in Phones, s \in Snapshots :
       AllIdle /\ Free(r) /\ started < MaxShortReq /\ SyncStart(r, p, s)
  \/ \E r \in Slots, p \in Phones :
       AllIdle /\ Free(r) /\ started < MaxShortReq /\ InboundStart(r, p)
  \/ \E r \in Slots : SyncAfterLoad(r)
  \/ \E r \in Slots : InboundAfterLoad(r)
  \/ \E r \in Slots : GenReturn(r)
  \/ \E r \in Slots : SendReturn(r)
  \/ \E r \in Slots : AckGenReturn(r)
  \/ \E r \in Slots : AckSendReturn(r)
  \/ LoadSettle
  \/ WriteSettle
  \/ Tick

SpecShort == Init /\ [][NextShort]_vars

\* A long run of /sync requests on an empty store, one after the other; the
\* n-th request carries a snapshot that tells it from every other.
SnapOf(n) == [sleep_duration_hours |-> n, wake_time_hour |-> 7,
              running_minutes |-> 30]

InitWindow == Init /\ dataFile = NoFile /\ ~stateFile.exists

NextWindow ==
  \/ \E r \in Slots, p \in Phones :
       AllIdle /\ Free(r) /\ started < MaxSync
         /\ SyncStart(r, p, SnapOf(started + 1))
  \/ \E r \in Slots : SyncAfterLoad(r)
  \/ \E r \in Slots : SendReturn(r)
  \/ LoadSettle
  \/ WriteSettle
  \/ Tick

SpecWindow == InitWindow /\ [][NextWindow]_vars

\* ------------------------------------------------- external calls that hang
\* index.js:244, 255, 318, 319 (632, 641, 697, 698): the handler awaits the
\* promise of the Anthropic or Twilio client as it is, with no timeout and no
\* race against a timer.  A call that never settles leaves the handler at
\* its await: no step of the program leads on from there.
Hang(r) ==
  /\ pc[r] \in {"gen", "send", "ackgen", "acksend"}
  /\ pc' = [pc EXCEPT ![r] = "hung"]
  /\ UNCHANGED <<cfgVars, fnVars, fsVars, now, storeVars, memVars, loc, started, faults, last,
                 arrived, smsVars>>

NextLive ==
  \/ Next
  \/ \E r \in Slots : Hang(r)

\* Every call that settles does so in the end, and so does every read and
\* write of a file; a handler that can go on does go on.
Fairness ==
  /\ \A r \in Slots :
       /\ WF_vars(SyncAfterLoad(r))
       /\ WF_vars(InboundAfterLoad(r))
       /\ WF_vars(GenReturn(r))
       /\ WF_vars(SendReturn(r))
       /\ WF_vars(AckGenReturn(r))
       /\ WF_vars(AckSendReturn(r))
  /\ WF_vars(LoadSettle)
  /\ WF_vars(WriteSettle)

SpecLive == Init /\ [][NextLive]_vars /\ Fairness

\* ----------------------------------------------------- store.js: the calls
StoreKinds == {"registerUser", "updateBaseline", "recordSent"}

FreeOp(r) ==
  storeOp[r].pc = "idle" /\ \A q \in Slots : q < r => storeOp[q].pc # "idle"

\* A call that has returned is counted for its identity.
Returned(kind, phone) ==
  [storeLog EXCEPT
     !.done[phone][kind] = IF kind = "updateBaseline" THEN @ + 1 ELSE 1]

\* store.js:57-58, 91-92, 110-111: an exported function is called and awaits
\* readDB.  The snapshot handed to updateBaseline carries the time of the call.
StoreCall(r, kind, phone) ==
  /\ FreeOp(r)
  /\ storeOp' = [storeOp EXCEPT ![r] =
                   [kind |-> kind, phone |-> phone,
                    arg |-> IF kind = "updateBaseline" THEN now ELSE Null,
                    pc |-> "read", db |-> EmptyDB, saw |-> {}]]
  /\ storeLog' = [storeLog EXCEPT
                    !.calls = @ + 1,
                    !.clash = @ \/ \E q \in Slots : /\ storeOp[q].pc # "idle"
                                                    /\ storeOp[q].phone = phone]
  /\ UNCHANGED <<cfgVars, fnVars, now, storeVars, memVars, pc, loc, started, faults, last,
                 arrived, smsVars, usersFile>>

\* store.js:59-67: registerUser adds the record when db[phone] is missing.
registerUser(d, phone, t) ==
  IF d[phone].present THEN d ELSE [d EXCEPT ![phone] = NewUser(t)]

\* store.js:94-100: the snapshots newer than thirty days, then the new one.
updateBaseline(d, phone, snapshot, t) ==
  LET cutoff == t - BASELINE_WINDOW_DAYS * TicksPerDay
  IN [d EXCEPT ![phone].snapshots =
        Append(SelectSeq(@, LAMBDA ts : ts > cutoff), snapshot)]

\* store.js:112-120: recordSent stamps the record and restarts the thread.
recordSent(d, phone, anomalyType, messageText, t) ==
  [d EXCEPT ![phone].lastSentAt = t,
            ![phone].lastAnomalyType = anomalyType,
            ![phone].conversation =
               <<[role |-> "assistant", content |-> messageText, timestamp |-> t]>>]

\* store.js:43-50: the timestamp and the clock fall on the same calendar day.
isToday(isoString, t) ==
  IF isoString = Null THEN FALSE ELSE DayOf(isoString) = DayOf(t)

\* store.js:129-143: "null", or "thread" for the conversation itself.
getConversation(d, phone, t) ==
  LET c == d[phone].conversation
  IN IF ~d[phone].present \/ c = <<>> THEN "null"
     ELSE IF ~isToday(c[1].timestamp, t) THEN "null"
     ELSE IF c[Len(c)].role = "assistant" /\ Len(c) > 1 THEN "null"
     ELSE "thread"

\* store.js:151-156 and 166-171: the turn is pushed onto the conversation.
appendMessage(d, phone, role, text, t) ==
  [d EXCEPT ![phone].conversation =
     Append(@, [role |-> role, content |-> text, timestamp |-> t])]

\* store.js:29-36 and what follows the await of readDB, up to the await in
\* writeDB: registerUser returns when the record exists, getConversation
\* returns always, the other functions return when the record is missing.
ReadReturn(r) ==
  LET o == storeOp[r]
      d == readDB(usersFile)
      writes == IF o.kind = "registerUser" THEN ~d[o.phone].present
                ELSE IF o.kind = "getConversation" THEN FALSE
                ELSE d[o.phone].present
      d2 == IF o.kind = "registerUser" THEN registerUser(d, o.phone, now)
            ELSE IF o.kind = "updateBaseline"
                 THEN updateBaseline(d, o.phone, o.arg, now)
            ELSE IF o.kind = "appendUserMessage"
                 THEN appendMessage(d, o.phone, "user", "ok", now)
            ELSE IF o.kind = "appendAssistantMessage"
                 THEN appendMessage(d, o.phone, "assistant", "Glad to hear it", now)
            ELSE recordSent(d, o.phone, "short_sleep", "Short night?", now)
  IN /\ o.pc = "read"
     /\ IF writes
        THEN /\ storeOp' = [storeOp EXCEPT ![r] =
                              [o EXCEPT !.pc = "write", !.db = d2,
                                        !.saw = Registered(usersFile.content)]]
             /\ UNCHANGED storeLog
        ELSE /\ storeOp' = [storeOp EXCEPT ![r] = IdleOp]
             /\ storeLog' =
                  IF o.kind = "registerUser" THEN Returned(o.kind, o.phone)
                  ELSE IF o.kind = "getConversation"
                       THEN [storeLog EXCEPT
                               !.conversation = getConversation(d, o.phone, now)]
                  ELSE storeLog
     /\ UNCHANGED <<cfgVars, fnVars, now, storeVars, memVars, pc, loc, started, faults, last,
                    arrived, smsVars, usersFile>>

\* store.js:39-40: fs.mkdir has resolved and fs.writeFile has opened
\* users.json, which truncates it; the content follows in a later step.
WriteBegin(r) ==
  /\ storeOp[r].pc = "write"
  /\ storeOp' = [storeOp EXCEPT ![r].pc = "writing"]
  /\ usersFile' = [usersFile EXCEPT !.state = "partial"]
  /\ UNCHANGED <<cfgVars, fnVars, now, storeVars, memVars, pc, loc, started, faults, last,
                 arrived, smsVars, storeLog>>

\* store.js:40: fs.writeFile resolves and the function returns.  The file
\* holds JSON.stringify(db), unless another writeFile has the file open at
\* the same time: then it holds this text or a mix of the two texts.
WriteEnd(r) ==
  LET o == storeOp[r]
      shared == \E q \in Slots : q # r /\ storeOp[q].pc = "writing"
  IN /\ o.pc = "writing"
     /\ \E mixed \in IF shared THEN BOOLEAN ELSE {FALSE} :
          usersFile' = IF mixed THEN [usersFile EXCEPT !.state = "partial"]
                       ELSE [state |-> "whole", content |-> o.db]
     /\ storeOp' = [storeOp EXCEPT ![r] = IdleOp]
     /\ storeLog' = Returned(o.kind, o.phone)
     /\ UNCHANGED <<cfgVars, fnVars, now, storeVars, memVars, pc, loc, started, faults, last,
                    arrived, smsVars>>

\* A process whose users.json is missing or holds one registered user with
\* one snapshot; the handlers of index.js are left out.
StoreBoots ==
  {EmptyDB,
   [EmptyDB EXCEPT !["+1555"] = [NewUser(0) EXCEPT !.snapshots = <<0>>]]}

InitStore ==
  /\ InitServer
  /\ variant = "memory" /\ anthropic = FALSE /\ boot = "empty"
  /\ \E d \in StoreBoots :
       /\ usersFile = [state |-> IF d = EmptyDB THEN "missing" ELSE "whole",
                       content |-> d]
       /\ storeLog = LogOf(d)
  /\ storeOp = [r \in Slots |-> IdleOp]
  /\ InitFnIdle

\* Calls of store.js may overlap: each await gives way to the other calls.
NextStore ==
  \/ \E r \in Slots, kind \in StoreKinds, phone \in StorePhones :
       storeLog.calls < MaxStoreCalls /\ StoreCall(r, kind, phone)
  \/ \E r \in Slots : ReadReturn(r)
  \/ \E r \in Slots : WriteBegin(r)
  \/ \E r \in Slots : WriteEnd(r)
  \/ Tick

SpecStore == InitStore /\ [][NextStore]_vars

\* The calls that make a day's thread for one registered user, one call at
\* a time.
ThreadKinds ==
  {"recordSent", "appendUserMessage", "appendAssistantMessage", "getConversation"}

InitThread == InitStore /\ usersFile.state = "whole"

NextThread ==
  \/ \E r \in Slots, kind \in ThreadKinds :
       /\ \A q \in Slots : storeOp[q].pc = "idle"
       /\ storeLog.calls < MaxThreadCalls
       /\ StoreCall(r, kind, "+1555")
  \/ \E r \in Slots : ReadReturn(r)
  \/ \E r \in Slots : WriteBegin(r)
  \/ \E r \in Slots : WriteEnd(r)
  \/ Tick

SpecThread == InitThread /\ [][NextThread]_vars

\* updateBaseline for one registered user, one call at a time.
NextStoreWindow ==
  \/ \E r \in Slots :
       /\ \A q \in Slots : storeOp[q].pc = "idle"
       /\ storeLog.calls < MaxSync
       /\ StoreCall(r, "updateBaseline", "+1555")
  \/ \E r \in Slots : ReadReturn(r)
  \/ \E r \in Slots : WriteBegin(r)
  \/ \E r \in Slots : WriteEnd(r)
  \/ Tick

SpecStoreWindow == InitThread /\ [][NextStoreWindow]_vars

\* ------------------------------------------- the detection functions alone
\* Snapshots handed to analyzeSnapshot: a Sunday or a Monday, the wake hour
\* missing, 2 or 3 deviations late, sleep 3 or 2 deviations short or 3 long.
AnalyzeSnapshots ==
  [weekday : {1, 2}, wake_time_hour : {Null, 9, 10},
   sleep_duration_hours : {5, 6, 11}, running_minutes : {0, 10, 30},
   resting_hr : {60, 71}]

\* What computeBaseline returns for six or seven snapshots: a metric nobody
\* reported has no statistics, one that never varied has deviation 0; the
\* run statistics exist exactly when there was a day with a run.
Baselines ==
  LET metrics == [present : {TRUE}, sampleCount : {6, 7},
                  wakeTime : {NoStats, [mean |-> 7, stddev |-> 1],
                              [mean |-> 7, stddev |-> 0]},
                  sleepDuration : {[mean |-> 8, stddev |-> 1],
                                   [mean |-> 8, stddev |-> 0]},
                  restingHR : {[mean |-> 60, stddev |-> 5],
                               [mean |-> 60, stddev |-> 0]},
                  workoutDuration : {NoStats, [mean |-> 30, stddev |-> 5]},
                  runFrequency : {0, 50, 100},
                  typicalRunHour : {Null, 7}]
  IN {NoBaseline} \cup
     {b \in metrics :
        /\ b.runFrequency = 0 <=> b.workoutDuration = NoStats
        /\ b.runFrequency = 0 <=> b.typicalRunHour = Null}

Hours == {10, 13}

\* The values and histories handed to detectTwoSigma.
DetectValues == {Null} \cup (0..MaxValue)
Histories == UNION {[1..n -> 0..MaxValue] : n \in 0..MaxHistory}

\* The snapshots of a /sync and the windows it is evaluated against: two
\* days, the sleep differing or not.
EvalSnapshots ==
  [sleep_duration_hours : {4, 8, 12}, wake_time_hour : {7, 10},
   running_minutes : {10, 30}]
EvalWindows ==
  {<<[Entry(Normal) EXCEPT !.sleep_duration_hours = a],
     [Entry(Normal) EXCEPT !.sleep_duration_hours = b]>> : a, b \in {7, 8, 9}}

\* The windows handed to computeBaseline: two or three days, a metric
\* reported or not; hour is the hour of the snapshot's timestamp.
DaySnapshots ==
  [wake_time_hour : {Null, 7, 9}, sleep_duration_hours : {Null, 8},
   resting_hr : {60}, running_minutes : {0, 30}, hour : {7, 8}]
Windows == UNION {[1..n -> DaySnapshots] : n \in 2..3}

InitDetect ==
  /\ InitServer /\ InitStoreIdle
  /\ variant = "store" /\ anthropic = FALSE /\ boot = "empty"
  /\ fnOut = NoOutput
  /\ \/ \E s \in AnalyzeSnapshots, b \in Baselines, h \in Hours :
          fnIn = [NoInput EXCEPT !.fn = "analyzeSnapshot", !.snapshot = s,
                                 !.baseline = b, !.hour = h]
     \/ \E v \in DetectValues, h \in Histories :
          fnIn = [NoInput EXCEPT !.fn = "detectTwoSigma", !.value = v,
                                 !.history = h]
     \/ \E s \in EvalSnapshots, w \in EvalWindows :
          fnIn = [NoInput EXCEPT !.fn = "evaluate", !.snapshot = s,
                                 !.history = w]
     \/ \E w \in Windows :
          fnIn = [NoInput EXCEPT !.fn = "computeBaseline", !.history = w]

\* twilio.js:40: analyzeSnapshot(snapshot, baseline) is called and returns.
ApplyAnalyze ==
  /\ fnIn.fn = "analyzeSnapshot"
  /\ ~fnOut.applied
  /\ fnOut' = [applied |-> TRUE,
               result |-> analyzeSnapshot(fnIn.snapshot, fnIn.baseline, fnIn.hour)]
  /\ UNCHANGED <<cfgVars, fsVars, now, storeVars, memVars, pc, loc, started, faults,
                 last, arrived, smsVars, fnIn>>

\* index.js:69-87 and 468-487: detectTwoSigma(value, history) of either
\* variant is called and returns.
ApplyDetect ==
  /\ fnIn.fn = "detectTwoSigma"
  /\ ~fnOut.applied
  /\ fnOut' = [applied |-> TRUE,
               result |-> [store |-> detectTwoSigma(fnIn.value, fnIn.history),
                           mem |-> detectTwoSigma_mem(fnIn.value, fnIn.history)]]
  /\ UNCHANGED <<cfgVars, fsVars, now, storeVars, memVars, pc, loc, started, faults,
                 last, arrived, smsVars, fnIn>>

\* index.js:196-252 and 601-638: the rule chain of /sync of either variant
\* runs on a snapshot and a window.
ApplyEvaluate ==
  /\ fnIn.fn = "evaluate"
  /\ ~fnOut.applied
  /\ fnOut' = [applied |-> TRUE,
               result |-> [store |-> Evaluate(fnIn.snapshot, fnIn.history),
                           mem |-> Evaluate_mem(fnIn.snapshot, fnIn.history)]]
  /\ UNCHANGED <<cfgVars, fsVars, now, storeVars, memVars, pc, loc, started, faults,
                 last, arrived, smsVars, fnIn>>

\* twilio.js:160: computeBaseline(snapshots) is called and returns.
ApplyBaseline ==
  /\ fnIn.fn = "computeBaseline"
  /\ ~fnOut.applied
  /\ fnOut' = [applied |-> TRUE, result |-> computeBaseline(fnIn.history)]
  /\ UNCHANGED <<cfgVars, fsVars, now, storeVars, memVars, pc, loc, started, faults,
                 last, arrived, smsVars, fnIn>>

NextDetect ==
  \/ ApplyAnalyze
  \/ ApplyBaseline
  \/ ApplyDetect
  \/ ApplyEvaluate

SpecDetect == InitDetect /\ [][NextDetect]_vars

\* ------------------------------------------------ requests without a phone
\* The phone check moved below the first statement of the try block: the
\* in-memory variant has then started to load the state file.
Reject400_afterLoad(kind) ==
  /\ started' = started + 1
  /\ last' = [NoLast EXCEPT !.kind = kind, !.status = "400", !.day = DayOf(now)]
  /\ stateLoadPromise' = IF variant = "memory" /\ stateLoadPromise = "none"
                         THEN "pending" ELSE stateLoadPromise
  /\ UNCHANGED <<cfgVars, fnVars, fsVars, now, storeVars, userState, stateLoaded,
                 stateFile, stateWriteChain, pc, loc, faults, arrived, smsVars>>

\* index.js:170, 191, 574, 595: if (!phone) return res.status(400).json(...)
\* is the first statement after the body is read; the handler ends there.
Reject400(kind) ==
  /\ started' = started + 1
  /\ last' = [NoLast EXCEPT !.kind = kind, !.status = "400", !.day = DayOf(now)]
  /\ UNCHANGED <<cfgVars, fnVars, fsVars, now, storeVars, memVars, pc, loc, faults,
                 arrived, smsVars>>

\* POST /sync whose body holds no phone.
SyncReject == Reject400("sync")

\* POST /register whose body holds no phone.
RegisterReject == Reject400("register")

\* One /sync with a phone at a time; requests without a phone at any time.
NextReject ==
  \/ \E r \in Slots, p \in Phones, s \in Snapshots :
       AllIdle /\ Free(r) /\ started < MaxRejReq /\ SyncStart(r, p, s)
  \/ started < MaxRejReq /\ SyncReject
  \/ started < MaxRejReq /\ RegisterReject
  \/ \E r \in Slots : SyncAfterLoad(r)
  \/ \E r \in Slots : GenReturn(r)
  \/ \E r \in Slots : SendReturn(r)
  \/ LoadSettle
  \/ WriteSettle
  \/ Tick

SpecReject == Init /\ [][NextReject]_vars

\* ------------------------------------------------------------------ claims
Count(s, x) == Cardinality({i \in 1..Len(s) : s[i] = x})

\* The entry the running variant pushes for a snapshot.
EntryOf(snapshot) ==
  IF variant = "store" THEN Entry(snapshot) ELSE Entry_mem(snapshot)

EntriesOf(snaps) == [i \in 1..Len(snaps) |-> EntryOf(snaps[i])]

\* The window the process started from.
BootWindow ==
  IF boot = "empty" THEN <<>>
  ELSE IF variant = "store" THEN History ELSE History_mem

\* The record of an identity in the file the running variant writes.
OnDisk(p) == IF variant = "store" THEN dataFile[p] ELSE stateFile.content[p]

\* The stored state can be looked at: the in-memory variant has loaded it.
Readable == variant = "store" \/ stateLoaded

LastOf(s, n) == IF Len(s) <= n THEN s ELSE SubSeq(s, Len(s) - n + 1, Len(s))

\* C1, as the spec states it: of /sync requests handled one after the other
\* on one day, sendSMS is invoked for one only.
C1_OneCallPerDay ==
  \A p \in Phones, d \in Days : calls[p][d] <= 1

\* C1, amended: /sync requests handled one after the other deliver at most
\* one proactive message per identity and day.  A request that detects an
\* anomaly, gets its text and finds no delivery on its day invokes sendSMS; once a delivery of the
\* day is on record no later request of that day invokes sendSMS, and such a
\* request leaves lastMessageDate and threadOpen as it found them.  A
\* delivery stamps lastMessageDate and opens the thread.
C1_SequentialCooldown ==
  /\ \A p \in Phones, d \in Days : delivered[p][d] <= 1
  /\ \A r \in Slots :
       pc[r] = "send" =>
         /\ ~loc[r].alreadyMessagedToday
         /\ delivered[loc[r].phone][loc[r].startDay] = 0
  /\ (AllIdle /\ last.kind = "sync") =>
       /\ last.already =>
            /\ ~last.sendCalled
            /\ Stored(last.phone).lastMessageDate = last.startLmd
            /\ Stored(last.phone).threadOpen = last.startOpen
       /\ (last.anomaly # "none" /\ ~last.already /\ ~last.genThrew) =>
            last.sendCalled
       /\ (last.sendOk /\ last.status = "ok") =>
            /\ Stored(last.phone).lastMessageDate = sentAt[last.phone]
            /\ Stored(last.phone).threadOpen

\* C1 happens: a delivery made in this run, then a second anomalous request
\* of the same day that was answered without a send.
C1_Witness ==
  /\ AllIdle
  /\ last.kind = "sync" /\ last.status = "ok"
  /\ last.already /\ last.anomaly # "none"
  /\ \E p \in Phones :
       /\ last.phone = p
       /\ sentAt[p] >= 1
       /\ DayOf(sentAt[p]) = last.day
       /\ calls[p][last.day] = 1
       /\ Len(arrived[p]) >= 2

\* C2: of overlapping /sync requests for one identity on one day at most one
\* proactive message is sent; here even counting the deliveries only.
C2_OneDeliveryPerDay ==
  \A p \in Phones, d \in Days : delivered[p][d] <= 1

\* C3: no window append of a /sync answered {ok: true} is lost, however the
\* requests overlap: the window holds what the process started from and
\* every snapshot answered for, and once all requests are done and no write
\* failed the file holds the same window.
C3_NoLostAppend ==
  \A p \in Phones :
    /\ (AllIdle /\ faults = 0 /\ arrived[p] # <<>>) =>
         OnDisk(p).baseline = Stored(p).baseline
    /\ Readable =>
         /\ Len(Stored(p).baseline) >= Len(BootWindow) + Len(arrived[p])
         /\ \A s \in Snapshots \cup {Normal} :
              Count(Stored(p).baseline, EntryOf(s)) >=
                Count(BootWindow, EntryOf(s))
                  + Count(EntriesOf(arrived[p]), EntryOf(s))

\* C3 happens: two /sync requests overlapped (both delivered on one day,
\* which the cooldown forbids to requests in sequence) and both were
\* answered {ok: true}.
C3_Witness ==
  /\ AllIdle
  /\ \E p \in Phones :
       /\ Len(arrived[p]) = 2
       /\ \E d \in Days : delivered[p][d] = 2 /\ calls[p][d] = 2
       /\ boot = "history"

\* C4: a /sync whose sendSMS fails changes neither lastMessageDate nor
\* threadOpen, in memory or on disk, and the cooldown blocks a request only
\* when a delivery of its day is on record: the same day's next anomaly is
\* sent.
C4_FailedSendStep ==
  \A r \in Slots :
    (pc[r] = "send" /\ pc'[r] = "idle" /\ delivered' = delivered) =>
      /\ \A p \in Phones :
           /\ Stored(p).lastMessageDate' = Stored(p).lastMessageDate
           /\ Stored(p).threadOpen' = Stored(p).threadOpen
      /\ dataFile' = dataFile
      /\ stateFile' = stateFile
      /\ last'.status = "error"

C4_BlockedOnlyAfterDelivery ==
  \A r \in Slots :
    (loc[r].kind = "sync" /\ loc[r].alreadyMessagedToday) =>
      delivered[loc[r].phone][loc[r].startDay] >= 1

C4_FailedSendKeepsCooldown ==
  [][C4_FailedSendStep]_vars /\ []C4_BlockedOnlyAfterDelivery

\* C4 happens: a /sync failed in sendSMS and ended, and a /sync that arrived
\* later on the same day is in sendSMS.
C4_Witness ==
  /\ last.kind = "sync" /\ last.sendCalled /\ ~last.sendOk
  /\ last.status = "error"
  /\ \E r \in Slots :
       /\ pc[r] = "send"
       /\ loc[r].phone = last.phone
       /\ loc[r].endedBefore = 1 /\ started = 2
       /\ loc[r].startDay = last.day
       /\ \A q \in Slots \ {r} : pc[q] = "idle"

\* C5: of inbound replies handled one after the other, the first one that
\* finds the thread open is acknowledged: an acknowledgment is handed to
\* sendSMS for it.
C5_FirstReplyAcknowledged ==
  (AllIdle /\ last.kind = "inbound" /\ last.startOpen) => last.sendCalled

\* C6: of overlapping inbound replies to one open thread at most one
\* acknowledgment is sent.
C6_OneAckPerThread ==
  \A p \in Phones : ackCalls[p] <= 1

\* C7: an acknowledgment is sent only for a reply that arrives on the
\* calendar day of the proactive message that opened the thread.
C7_AckSameDay ==
  \A r \in Slots :
    pc[r] = "acksend" =>
      loc[r].startDay = DayOf(sentAt[loc[r].phone])

\* C8: after N successful /sync requests in sequence on an empty store the
\* window holds the last min(N, BASELINE_LIMIT) snapshots in arrival order.
C8_WindowIsLastThirty ==
  \A p \in Phones :
    (AllIdle /\ Len(arrived[p]) = started) =>
      Stored(p).baseline = LastOf(EntriesOf(arrived[p]), BASELINE_LIMIT)

\* C8 happens: more than BASELINE_LIMIT requests succeeded, so the oldest
\* were evicted.
C8_Witness ==
  /\ AllIdle
  /\ \E p \in Phones :
       /\ Len(arrived[p]) = started
       /\ started > BASELINE_LIMIT
       /\ Len(Stored(p).baseline) = BASELINE_LIMIT

\* C9: a /sync whose sendSMS fails is not aborted: its snapshot is appended
\* and the caller gets no error.
C9_SendFailureNotFatal ==
  (last.kind = "sync" /\ last.sendCalled /\ ~last.sendOk) =>
    (last.status = "ok" /\ last.appended)

\* C10: when the text generation throws, for a reply to an open thread or a
\* run anomaly outside the cooldown, a default text is still handed to
\* sendSMS.
C10_GenerationFailureStillSends ==
  (last.genThrew /\ ~(last.kind = "sync" /\ last.already)) => last.sendCalled

\* C11: every /sync request and every inbound reply finishes in the end,
\* also when an external call it awaits never returns.
C11_EveryRequestFinishes ==
  \A r \in Slots : (pc[r] # "idle") ~> (pc[r] = "idle")

\* C12: a /sync whose durable write failed reports failure: when a request
\* was answered {ok: true}, what it changed is in the file.
C12_SuccessMeansWritten ==
  (AllIdle /\ last.kind = "sync" /\ last.status = "ok") =>
    OnDisk(last.phone) = Stored(last.phone)


StoreIdle == \A r \in Slots : storeOp[r].pc = "idle"

\* C13: a store.js call whose read falls into another call's write never
\* takes the missing or half-written users.json for an empty database: the
\* object it works on holds every record of the last completely written file.
C13_ReadSeesWrittenRecords ==
  \A r \in Slots :
     storeOp[r].pc \in {"write", "writing"} =>
        storeOp[r].saw \subseteq Registered(storeOp[r].db)

\* C14: when calls of store.js for different identities overlap, each
\* identity's record reflects the calls made for it once all have returned:
\* a registered user is present, every snapshot handed to updateBaseline is
\* in the list, and a recorded send is stamped.
C14_EachRecordReflectsItsCalls ==
  (StoreIdle /\ ~storeLog.clash) =>
     \A p \in StorePhones :
        LET u == readDB(usersFile)[p]
            done == storeLog.done[p]
        IN /\ done.registerUser > 0 => u.present
           /\ Len(u.snapshots) = done.updateBaseline
           /\ done.recordSent > 0 => u.lastSentAt # Null

\* C15: registerUser is idempotent: a call for a phone that is registered
\* when the call reads the store leaves every record of the store as it was.
C15_RegisterUserIdempotent ==
  [][\A r \in Slots :
       (/\ storeOp[r].kind = "registerUser"
        /\ storeOp[r].phone \in storeOp[r].saw
        /\ storeOp[r].pc = "writing"
        /\ storeOp'[r].pc = "idle")
       => usersFile'.content = usersFile.content]_vars


Rules == <<"late_wake", "short_sleep", "skipped_run", "elevated_hr", "short_workout">>

\* The trigger condition of a rule on the arguments of the call.
Triggers(rule) ==
  CASE rule = "late_wake" -> lateWake(fnIn.snapshot, fnIn.baseline)
    [] rule = "short_sleep" -> shortSleep(fnIn.snapshot, fnIn.baseline)
    [] rule = "skipped_run" -> skippedRun(fnIn.snapshot, fnIn.baseline, fnIn.hour)
    [] rule = "elevated_hr" -> elevatedHR(fnIn.snapshot, fnIn.baseline)
    [] rule = "short_workout" -> shortWorkout(fnIn.snapshot, fnIn.baseline)

Hits == {k \in 1..Len(Rules) : Triggers(Rules[k])}

Analyzed == fnIn.fn = "analyzeSnapshot" /\ fnOut.applied

\* The result is the first rule in the order of Rules that triggers, and
\* null when none does.
FirstMatch ==
  /\ Hits = {} <=> fnOut.result.type = "null"
  /\ \A k \in Hits : (\A j \in Hits : k <= j) => fnOut.result.type = Rules[k]

\* C16 as stated: analyzeSnapshot returns the first rule in the order
\* late_wake, short_sleep, skipped_run, elevated_hr, short_workout whose
\* trigger condition holds, and null exactly when no rule's condition holds.
C16_FirstMatchWins == Analyzed => FirstMatch

\* C16, amended: for a baseline of 7 samples or more analyzeSnapshot returns
\* the first rule in that order whose trigger condition holds and null
\* exactly when none holds; without a baseline or with fewer than 7 samples
\* it returns null whatever the rules' conditions are.
C16_FirstMatchWinsFromSevenSamples ==
  Analyzed =>
     IF fnIn.baseline.present /\ fnIn.baseline.sampleCount >= 7
     THEN FirstMatch
     ELSE fnOut.result.type = "null"

\* a call where skipped_run and elevated_hr both trigger
C16_Witness ==
  /\ Analyzed
  /\ {3, 4} \subseteq Hits
  /\ fnOut.result.type = "skipped_run"


Detected == fnIn.fn = "detectTwoSigma" /\ fnOut.applied
Evaluated == fnIn.fn = "evaluate" /\ fnOut.applied

\* n * (value - mean) and n^2 * variance of a value against a history
NumOf(value, history) == Len(history) * value - SumSeq(history)
Den2Of(history) ==
  Len(history) * SumSq(history) - SumSeq(history) * SumSeq(history)

\* C17: the threshold is strict: a value exactly 2.0 standard deviations
\* from the mean of its history, above or below, produces no anomaly, in
\* detectTwoSigma of either variant and in analyzeSnapshot.
C17_ExactlyTwoSigmaIsNoAnomaly ==
  /\ (/\ Detected
      /\ fnIn.value # Null /\ Len(fnIn.history) >= 2
      /\ Den2Of(fnIn.history) > 0
      /\ NumOf(fnIn.value, fnIn.history) * NumOf(fnIn.value, fnIn.history)
           = 4 * Den2Of(fnIn.history))
     => ~fnOut.result.store.found /\ ~fnOut.result.mem.found
  /\ (/\ Analyzed
      /\ fnIn.snapshot.wake_time_hour # Null
      /\ fnIn.baseline.wakeTime.stddev > 0
      /\ fnIn.snapshot.wake_time_hour - fnIn.baseline.wakeTime.mean
           = DEVIATION_THRESHOLD * fnIn.baseline.wakeTime.stddev)
     => fnOut.result.type # "late_wake"
  /\ (/\ Analyzed
      /\ fnIn.baseline.sleepDuration.stddev > 0
      /\ fnIn.baseline.sleepDuration.mean - fnIn.snapshot.sleep_duration_hours
           = DEVIATION_THRESHOLD * fnIn.baseline.sleepDuration.stddev)
     => fnOut.result.type # "short_sleep"

\* C18: with a history of 2 or more equal values, a value equal to the mean
\* is no anomaly and a value different from it is one, with an infinite
\* z-score of the sign of (value - mean); analyzeSnapshot's sleep rule fires
\* for a shorter sleep against a baseline whose sleep never varied.
C18_ZeroVariance ==
  /\ (/\ Detected
      /\ fnIn.value # Null /\ Len(fnIn.history) >= 2
      /\ Den2Of(fnIn.history) = 0)
     => LET num == NumOf(fnIn.value, fnIn.history)
            sign == IF num > 0 THEN 1 ELSE 0 - 1
        IN /\ num = 0 => ~fnOut.result.store.found /\ ~fnOut.result.mem.found
           /\ num # 0 => /\ fnOut.result.store.found
                         /\ fnOut.result.store.inf = sign
                         /\ fnOut.result.mem.found
                         /\ fnOut.result.mem.inf = sign
  /\ (/\ Analyzed
      /\ fnIn.baseline.present /\ fnIn.baseline.sampleCount >= 7
      /\ fnIn.baseline.sleepDuration.stddev = 0
      /\ fnIn.snapshot.sleep_duration_hours < fnIn.baseline.sleepDuration.mean
      /\ ~lateWake(fnIn.snapshot, fnIn.baseline))
     => fnOut.result.type = "short_sleep"

\* C19: the sleep rule is negative-only: a sleep duration more than 2
\* standard deviations above the mean gives no sleep anomaly and no message,
\* in the rule chain of /sync and in analyzeSnapshot.
C19_LongSleepIsNoAnomaly ==
  /\ (/\ Evaluated
      /\ LET h == Column(fnIn.history, "sleep_duration_hours")
             num == NumOf(fnIn.snapshot.sleep_duration_hours, h)
         IN Den2Of(h) > 0 /\ num > 0 /\ num * num > 4 * Den2Of(h))
     => /\ fnOut.result.store.anomaly.type # "sleep_duration_hours"
        /\ fnOut.result.store.message # "Long night?"
        /\ fnOut.result.mem.anomaly.type # "sleep_duration_hours"
        /\ fnOut.result.mem.message # "Long night?"
  /\ (/\ Analyzed
      /\ fnIn.baseline.sleepDuration.stddev > 0
      /\ ZAbove(fnIn.snapshot.sleep_duration_hours, fnIn.baseline.sleepDuration))
     => fnOut.result.type # "short_sleep"


\* A request has been answered 400 in this step.
Rejected ==
  /\ started' = started + 1
  /\ Finished' = Finished + 1
  /\ last'.status = "400"

\* C20: a /sync or /register request without a phone is rejected before any
\* state is read or changed: the step that answers 400 leaves the stores in
\* memory and the files as they were, queues no write, starts no load and
\* makes no external call.
C20_RejectTouchesNothing ==
  [][Rejected =>
       /\ last'.kind \in {"sync", "register"}
       /\ UNCHANGED <<storeVars, memVars, fsVars, smsVars, pc, loc, faults, arrived>>]_vars

\* a request without a phone was answered 400 after an earlier request,
\* with a record in the store
C20_Witness ==
  /\ last.status = "400"
  /\ started > 1
  /\ \E p \in Phones : Stored(p).present


\* C21: when saveData fails in updateUserState, the store in memory does not
\* keep the mutation that was not written: after the request has ended with
\* the write failed, getUserState returns the state that is in data.json.
C21_FailedWriteNotKept ==
  (/\ variant = "store"
   /\ AllIdle
   /\ last.kind = "sync" /\ last.status = "error" /\ last.appended)
  => Stored(last.phone) = OnDisk(last.phone)


\* The conversation holds today's check-in, a reply and its acknowledgment,
\* and only replies after them.
Acknowledged(c, t) ==
  /\ Len(c) >= 3
  /\ c[1].role = "assistant" /\ c[2].role = "user" /\ c[3].role = "assistant"
  /\ \A i \in 4..Len(c) : c[i].role = "user"
  /\ isToday(c[1].timestamp, t)

\* C22: once today's thread holds an acknowledgment, getConversation returns
\* null for the rest of the day, whatever replies appendUserMessage has
\* appended since.
C22_NoThreadAfterAcknowledgment ==
  [][\A r \in Slots :
       (/\ storeOp[r].kind = "getConversation"
        /\ storeOp[r].pc = "read" /\ storeOp'[r].pc = "idle"
        /\ Acknowledged(readDB(usersFile)[storeOp[r].phone].conversation, now))
       => storeLog'.conversation = "null"]_vars


\* C23: after any sequence of updateBaseline calls for a registered user the
\* stored snapshots list has at most 30 entries, the oldest removed first:
\* the list is the last 30 of the snapshots handed over, in their order.
C23_SnapshotsAtMostThirty ==
  usersFile.state = "whole" =>
     \A p \in StorePhones :
        LET snaps == usersFile.content[p].snapshots
        IN /\ Len(snaps) <= BASELINE_LIMIT
           /\ \A i \in 1..(Len(snaps) - 1) : snaps[i] <= snaps[i + 1]


\* C24: when recordSent returns for a registered user, the user's
\* conversation in the store is exactly one assistant turn holding the sent
\* text, and lastSentAt is the timestamp of that turn.
C24_RecordSentOpensThread ==
  [][\A r \in Slots :
       (/\ storeOp[r].kind = "recordSent"
        /\ storeOp[r].pc # "idle" /\ storeOp'[r].pc = "idle"
        /\ usersFile.content[storeOp[r].phone].present)
       => LET u == readDB(usersFile')[storeOp[r].phone]
          IN /\ Len(u.conversation) = 1
             /\ u.conversation[1].role = "assistant"
             /\ u.conversation[1].content = "Short night?"
             /\ u.lastSentAt = u.conversation[1].timestamp]_vars


Computed == fnIn.fn = "computeBaseline" /\ fnOut.applied

\* C25: computeBaseline marks a metric {mean: null, stddev: null} whenever
\* the window holds fewer than 2 values of it that are not null.
C25_FewerThanTwoValuesIsNull ==
  (Computed /\ fnOut.result.present) =>
     /\ Len(FiniteOnly(Column(fnIn.history, "wake_time_hour"))) < 2
          => fnOut.result.wakeTime.none
     /\ Len(FiniteOnly(Column(fnIn.history, "sleep_duration_hours"))) < 2
          => fnOut.result.sleepDuration.none
     /\ Len(FiniteOnly(Column(fnIn.history, "resting_hr"))) < 2
          => fnOut.result.restingHR.none


\* A request has ended in this step the way last' tells.
EndsNow == Finished' = Finished + 1

\* C26: an inbound reply for an identity whose threadOpen is false (no
\* record, no thread, thread closed) never reaches generateAcknowledgment or
\* sendSMS, and the step in which its handler returns leaves every stored
\* state as it was, in memory and in the files: no record is created, no
\* thread opened, nothing queued for writing, nothing sent.
C26_ClosedThreadIsNoop ==
  [][/\ \A r \in Slots :
          (loc'[r].kind = "inbound" /\ pc'[r] \in {"ackgen", "acksend", "persist"})
          => loc'[r].startOpen
     /\ (EndsNow /\ last'.kind = "inbound" /\ ~last'.startOpen)
        => /\ last'.status = "noop" /\ ~last'.sendCalled
           /\ \A p \in Phones : Stored(p)' = Stored(p) /\ OnDisk(p)' = OnDisk(p)
           /\ UNCHANGED <<stateWriteChain, smsVars>>]_vars

\* after an earlier request, an inbound reply was handled for an identity whose
\* record holds a closed thread
C26_Witness ==
  /\ AllIdle
  /\ last.kind = "inbound" /\ last.status = "noop"
  /\ Stored(last.phone).present
  /\ started > 1


\* C27: once the handling of an inbound reply on an open thread has ended,
\* whatever generateAcknowledgment and sendSMS returned, the identity's
\* threadOpen is false in the stored state and in the file that holds it.
C27_ThreadClosedAndCommitted ==
  (AllIdle /\ stateWriteChain = <<>> /\ last.kind = "inbound" /\ last.startOpen)
  => /\ ~Stored(last.phone).threadOpen
     /\ ~OnDisk(last.phone).threadOpen


\* The window of an identity as it is stored.
WindowOf(p) == Stored(p).baseline

\* A /sync request for p is answered {ok: true} in this step.
SyncEndsOk(p) ==
  EndsNow /\ last'.kind = "sync" /\ last'.status = "ok" /\ last'.phone = p

\* The in-memory variant pushes the snapshot and queues the write in this
\* step; the response follows when the write has settled.
SyncPushes(r, p) ==
  /\ variant = "memory"
  /\ loc'[r].kind = "sync" /\ loc'[r].phone = p
  /\ pc[r] # "persist" /\ pc'[r] = "persist"

\* C28: a /sync answered {ok: true} has appended its snapshot to the window
\* of its identity exactly once: in the step that stores the state the
\* window becomes the old window with the snapshot pushed (and shifted at the
\* limit), whether an anomaly was found, sent, or blocked by the cooldown,
\* and no other step of the request changes the window.  A request with a
\* message that the cooldown blocks reports its anomaly, calls no sendSMS
\* and leaves lastMessageDate and threadOpen as they were.
C28_AppendsOnceAndBlockedKeepsState ==
  [][\A p \in Phones :
       /\ (variant = "store" /\ SyncEndsOk(p))
          => /\ last'.appended
             /\ WindowOf(p)' =
                  PushShift(WindowOf(p), EntryOf(arrived'[p][Len(arrived'[p])]))
             /\ (last'.message /\ last'.already)
                => /\ last'.anomaly # "none" /\ ~last'.sendCalled
                   /\ Stored(p)'.lastMessageDate = Stored(p).lastMessageDate
                   /\ Stored(p)'.threadOpen = Stored(p).threadOpen
       /\ \A r \in Slots : SyncPushes(r, p)
          => /\ WindowOf(p)' = PushShift(WindowOf(p), EntryOf(loc'[r].snapshot))
             /\ (loc'[r].message # NoText /\ loc'[r].alreadyMessagedToday)
                => /\ loc'[r].anomaly.type # "none" /\ ~loc'[r].sendCalled
                   /\ Stored(p)'.lastMessageDate = Stored(p).lastMessageDate
                   /\ Stored(p)'.threadOpen = Stored(p).threadOpen
       /\ (variant = "memory" /\ SyncEndsOk(p))
          => /\ \E r \in Slots : /\ pc[r] = "persist" /\ pc'[r] = "idle"
                                 /\ loc[r].kind = "sync" /\ loc[r].phone = p
                                 /\ last'.anomaly = loc[r].anomaly.type
             /\ Stored(p)' = Stored(p)
       /\ (/\ Readable /\ Readable'
           /\ ~(variant = "store" /\ EndsNow /\ last'.kind = "sync"
                  /\ last'.phone = p /\ last'.appended)
           /\ ~\E r \in Slots : SyncPushes(r, p))
          => WindowOf(p)' = WindowOf(p)]_vars


\* The file of the in-memory variant holds exactly the userState Map.
FileIsMap ==
  /\ stateFile.exists
  /\ \A p \in Phones : stateFile.content[p] = userState[p]

\* C29: the writes of persistState run one at a time in the order of the
\* calls: a call queues its write behind every pending one, the write that
\* runs is the oldest pending one, the file changes in no other step, and
\* the handler that awaits it goes on whether it failed or not, the later
\* writes staying queued.  When the last pending write settles successfully
\* the file holds the userState Map.
C29_WritesInCallOrder ==
  [][/\ Len(stateWriteChain') > Len(stateWriteChain)
        => /\ Len(stateWriteChain') = Len(stateWriteChain) + 1
           /\ SubSeq(stateWriteChain', 1, Len(stateWriteChain)) = stateWriteChain
     /\ Len(stateWriteChain') < Len(stateWriteChain)
        => /\ stateWriteChain' = Tail(stateWriteChain)
           /\ pc[Head(stateWriteChain).owner] = "persist"
           /\ pc'[Head(stateWriteChain).owner] = "idle"
     /\ stateFile' # stateFile
        => /\ stateWriteChain # <<>>
           /\ stateWriteChain' = Tail(stateWriteChain)
     /\ (stateWriteChain # <<>> /\ stateWriteChain' = <<>> /\ faults' = faults)
        => FileIsMap']_vars

\* two overlapping /sync requests (both delivered on one day) were answered
\* {ok: true}; one of their writes failed, the other succeeded, and the
\* file holds the Map
C29_Witness ==
  /\ variant = "memory"
  /\ AllIdle /\ stateWriteChain = <<>>
  /\ faults >= 1
  /\ \E p \in Phones :
       /\ started = 2 /\ Len(arrived[p]) = 2
       /\ \E d \in Days : delivered[p][d] = 2
  /\ FileIsMap


\* While the file has not been loaded the Map is as it was constructed, no
\* handler is past its await of the load and no write is queued.
Untouched ==
  /\ \A p \in Phones : userState[p] = AbsentMem
  /\ \A r \in Slots : pc[r] \in {"idle", "load"}
  /\ stateWriteChain = <<>>

\* C30: the state file is read at most once per process: the load promise is
\* created once, by the first caller of ensureStateLoaded, every caller
\* before its end waits for that one read, and it settles once.  Until it
\* has settled no handler has read or changed the Map, so the records the
\* load sets overwrite nothing a request has changed, and after it the
\* state stays loaded.
C30_LoadedOnceBeforeAnyUse ==
  /\ [](~stateLoaded => Untouched)
  /\ [][/\ stateLoadPromise' # stateLoadPromise
           => \/ /\ stateLoadPromise = "none" /\ stateLoadPromise' = "pending"
                 /\ ~stateLoaded'
              \/ /\ stateLoadPromise = "pending" /\ stateLoadPromise' = "resolved"
                 /\ ~stateLoaded /\ stateLoaded'
        /\ stateLoaded' # stateLoaded
           => /\ stateLoadPromise = "pending" /\ stateLoadPromise' = "resolved"
              /\ \A p \in Phones :
                   userState'[p] = IF stateFile.exists THEN stateFile.content[p]
                                   ELSE AbsentMem
        /\ ~stateLoaded' => stateFile' = stateFile]_vars

\* two requests called ensureStateLoaded before the read had finished; it
\* has finished now, the Map holds the record of the file, both go on
C30_Witness ==
  /\ variant = "memory"
  /\ stateLoaded /\ stateLoadPromise = "resolved"
  /\ Cardinality({r \in Slots : pc[r] = "load"}) >= 2
  /\ \E p \in Phones : userState[p].present /\ userState[p] = stateFile.content[p]

====
